---- MODULE Spec2Model ----
(***************************************************************************)
(* The issue search DSL of content/code/search-dsl.ts: a parser-combinator *)
(* core, the filter grammar built on it, the FilterNode AST, the predicate *)
(* compiler and executeQuery.                                              *)
(*                                                                         *)
(* A JavaScript string is a sequence of one-character strings, so that     *)
(* startsWith, slice, trim and the \w+ match are computed character by     *)
(* character.  A parser (a closure in the source) is a term                *)
(* [op |-> ..., ...] built by lit/alt/seq/many/map/word and applied to an  *)
(* input by Run; a predicate (a closure in the source) is a term           *)
(* [p |-> ..., ...] built by createPredicate and applied to an issue by    *)
(* Holds.                                                                  *)
(*                                                                         *)
(* Time is counted in seconds (the source counts milliseconds): the        *)
(* month threshold 2592000000 ms does not fit the 32-bit integers of TLC,  *)
(* so every timestamp and threshold is the source's value divided by 1000. *)
(***************************************************************************)
EXTENDS Integers, Sequences, FiniteSets, TLC

(***************************************************************************)
(* Strings                                                                 *)
(***************************************************************************)

\* The characters String.prototype.trim removes (the ones the model uses).
WhiteSpace == {" ", "\t"}

\* The characters the regular expression class \w accepts (the ones the
\* model uses): letters, digits, underscore.  "-", ":", "(", ")" are not.
WordChars ==
  {"a", "b", "c", "d", "e", "f", "g", "h", "i", "k", "l", "m", "n", "o",
   "p", "r", "s", "t", "u", "w", "y", "_", "1"}

RECURSIVE TrimStart(_)
TrimStart(s) ==
  IF s # <<>> /\ Head(s) \in WhiteSpace THEN TrimStart(Tail(s)) ELSE s

RECURSIVE TrimEnd(_)
TrimEnd(s) ==
  IF s # <<>> /\ s[Len(s)] \in WhiteSpace
    THEN TrimEnd(SubSeq(s, 1, Len(s) - 1))
    ELSE s

\* String.prototype.trim: whitespace is removed from both ends.
Trim(s) == TrimEnd(TrimStart(s))

\* String.prototype.startsWith
StartsWith(input, match) ==
  /\ Len(match) <= Len(input)
  /\ SubSeq(input, 1, Len(match)) = match

\* String.prototype.slice(n)
Slice(input, n) == SubSeq(input, n + 1, Len(input))

\* The longest prefix of word characters: what /^(\w+)/ captures (the empty
\* sequence when the regular expression does not match).
RECURSIVE WordPrefix(_)
WordPrefix(s) ==
  IF s # <<>> /\ Head(s) \in WordChars
    THEN <<Head(s)>> \o WordPrefix(Tail(s))
    ELSE <<>>

(***************************************************************************)
(* Either and ParserResult                                                 *)
(***************************************************************************)

\* success(value): Right([value, remaining])
success(value, remaining) ==
  [right |-> TRUE, value |-> value, remaining |-> remaining]

\* failure(error): Left(ParserError)
failure(code, message, position, input) ==
  [right |-> FALSE, code |-> code, message |-> message,
   position |-> position, input |-> input]

isRight(result) == result.right
isLeft(result) == ~result.right

(***************************************************************************)
(* Parser terms                                                            *)
(***************************************************************************)

lit(match) == [op |-> "lit", match |-> match]
alt(parsers) == [op |-> "alt", parsers |-> parsers]
seq(parsers) == [op |-> "seq", parsers |-> parsers]
many(parser) == [op |-> "many", parser |-> parser]
map(parser, fn) == [op |-> "map", parser |-> parser, fn |-> fn]
word == [op |-> "word"]

\* The functions given to map, by name (closures in the source).
\* ([_, status]) => ({ type: 'status', value: status }) and its siblings:
toLeaf(type, value) == [type |-> type, value |-> value[2]]

\* toOr with the group compiled as a conjunction.
toOr_asAnd(value) ==
  LET filters == value[2]
  IN  IF Len(filters) = 1 THEN filters[1]
      ELSE [type |-> "and", value |-> filters]

\* toOr with a single leaf wrapped in an or-node as well.
toOr_wrapOne(value) == [type |-> "or", value |-> value[2]]

\* ([_, filters, __]) => filters.length === 1 ? filters[0] : { type: 'or', ... }
toOr(value) ==
  LET filters == value[2]
  IN  IF Len(filters) = 1 THEN filters[1]
      ELSE [type |-> "or", value |-> filters]

\* toQuery with the empty query mapped to an or-node.
toQuery_emptyOr(filters) ==
  IF Len(filters) = 0 THEN [type |-> "or", value |-> <<>>]
  ELSE IF Len(filters) = 1 THEN filters[1]
  ELSE [type |-> "and", value |-> filters]

\* toQuery with several filters combined by an or-node.
toQuery_manyOr(filters) ==
  IF Len(filters) = 0 THEN [type |-> "and", value |-> <<>>]
  ELSE IF Len(filters) = 1 THEN filters[1]
  ELSE [type |-> "or", value |-> filters]

\* toQuery with a single filter wrapped in an and-node as well.
toQuery_wrapOne(filters) == [type |-> "and", value |-> filters]

\* (filters) => and-node of no children | filters[0] | and-node of filters
toQuery(filters) ==
  IF Len(filters) = 0 THEN [type |-> "and", value |-> <<>>]
  ELSE IF Len(filters) = 1 THEN filters[1]
  ELSE [type |-> "and", value |-> filters]

applyFn(fn, value) ==
  CASE fn = "or" -> toOr(value)
    [] fn = "query" -> toQuery(value)
    [] OTHER -> toLeaf(fn, value)

Message(text, arg) == [text |-> text, arg |-> arg]

\* litParse with the remaining input left as it is.
litParse_untrimmed(match, input) ==
  IF StartsWith(input, match)
    THEN success(match, Slice(input, Len(match)))
    ELSE failure("INVALID_TOKEN", Message("Expected", match), 0, input)

\* litParse that does not accept a word that goes on after the match.
litParse_boundary(match, input) ==
  LET rest == Slice(input, Len(match))
      goesOn == /\ match # <<>>
                /\ match[Len(match)] \in WordChars
                /\ rest # <<>>
                /\ Head(rest) \in WordChars
  IN  IF StartsWith(input, match) /\ ~goesOn
        THEN success(match, Trim(rest))
        ELSE failure("INVALID_TOKEN", Message("Expected", match), 0, input)

\* lit(match)(input)
litParse(match, input) ==
  IF StartsWith(input, match)
    THEN success(match, Trim(Slice(input, Len(match))))
    ELSE failure("INVALID_TOKEN", Message("Expected", match), 0, input)

\* wordParse with the first word character only as the match.
wordParse_oneChar(input) ==
  LET match == IF WordPrefix(input) # <<>> THEN <<Head(input)>> ELSE <<>>
  IN  IF match # <<>>
        THEN success(match, Trim(Slice(input, Len(match))))
        ELSE failure("INVALID_TOKEN", Message("Expected a word", <<>>), 0, input)

\* wordParse that reports the absence of a word as a missing value.
wordParse_missingValue(input) ==
  LET match == WordPrefix(input)
  IN  IF match # <<>>
        THEN success(match, Trim(Slice(input, Len(match))))
        ELSE failure("MISSING_VALUE", Message("Expected a word", <<>>), 0, input)

\* word()(input)
wordParse(input) ==
  LET match == WordPrefix(input)
  IN  IF match # <<>>
        THEN success(match, Trim(Slice(input, Len(match))))
        ELSE failure("INVALID_TOKEN", Message("Expected a word", <<>>), 0, input)

RECURSIVE Run(_, _)
RECURSIVE altParse(_, _, _)
RECURSIVE seqParse(_, _, _, _)
RECURSIVE manyParse(_, _, _)

\* alt(...parsers)(input): the loop from parser number i on.
altParse(parsers, i, input) ==
  IF i > Len(parsers)
    THEN failure("INVALID_TOKEN", Message("No matching alternative", <<>>), 0, input)
    ELSE LET result == Run(parsers[i], input)
         IN  IF isRight(result) THEN result
             ELSE altParse(parsers, i + 1, input)

\* seq(...parsers)(input): the loop from parser number i on.
seqParse(parsers, i, remaining, results) ==
  IF i > Len(parsers)
    THEN success(results, remaining)
    ELSE LET result == Run(parsers[i], remaining)
         IN  IF isLeft(result) THEN result
             ELSE seqParse(parsers, i + 1, result.remaining,
                           Append(results, result.value))

\* manyParse that fails when text the parser does not accept is left.
RECURSIVE manyParse_strict(_, _, _)
manyParse_strict(parser, remaining, results) ==
  LET trimmedRemaining == Trim(remaining)
      result == Run(parser, trimmedRemaining)
  IN  IF isLeft(result)
        THEN IF trimmedRemaining = <<>> THEN success(results, remaining)
             ELSE result
        ELSE manyParse_strict(parser, result.remaining,
                              Append(results, result.value))

\* s without its first token (the characters before the first whitespace).
RECURSIVE DropToken(_)
DropToken(s) ==
  IF s = <<>> \/ Head(s) \in WhiteSpace THEN s ELSE DropToken(Tail(s))

\* manyParse that skips a token the parser does not accept and goes on.
RECURSIVE manyParse_resync(_, _, _)
manyParse_resync(parser, remaining, results) ==
  LET trimmedRemaining == Trim(remaining)
      result == Run(parser, trimmedRemaining)
  IN  IF isLeft(result)
        THEN IF trimmedRemaining = <<>> THEN success(results, remaining)
             ELSE manyParse_resync(parser, DropToken(trimmedRemaining), results)
        ELSE manyParse_resync(parser, result.remaining,
                              Append(results, result.value))

\* many(parser)(input): the while loop.
manyParse(parser, remaining, results) ==
  LET trimmedRemaining == Trim(remaining)
      result == Run(parser, trimmedRemaining)
  IN  IF isLeft(result) THEN success(results, remaining)
      ELSE manyParse(parser, result.remaining, Append(results, result.value))

\* map(parser, fn)(input)
mapParse(parser, fn, input) ==
  LET result == Run(parser, input)
  IN  IF isRight(result)
        THEN success(applyFn(fn, result.value), result.remaining)
        ELSE result

\* Applying a parser to an input.
Run(p, input) ==
  CASE p.op = "lit" -> litParse(p.match, input)
    [] p.op = "word" -> wordParse(input)
    [] p.op = "alt" -> altParse(p.parsers, 1, input)
    [] p.op = "seq" -> seqParse(p.parsers, 1, input, <<>>)
    [] p.op = "many" -> manyParse(p.parser, input, <<>>)
    [] p.op = "map" -> mapParse(p.parser, p.fn, input)

(***************************************************************************)
(* Text of the grammar                                                     *)
(***************************************************************************)

S_is == <<"i", "s", ":">>
S_author == <<"a", "u", "t", "h", "o", "r", ":">>
S_label == <<"l", "a", "b", "e", "l", ":">>
S_type == <<"t", "y", "p", "e", ":">>
S_updated == <<"u", "p", "d", "a", "t", "e", "d", ":">>
S_lparen == <<"(">>
S_rparen == <<")">>

S_open == <<"o", "p", "e", "n">>
S_closed == <<"c", "l", "o", "s", "e", "d">>
S_bug == <<"b", "u", "g">>
S_feature == <<"f", "e", "a", "t", "u", "r", "e">>
S_docs == <<"d", "o", "c", "s">>
S_enhancement == <<"e", "n", "h", "a", "n", "c", "e", "m", "e", "n", "t">>
S_hour == <<"h", "o", "u", "r">>
S_day == <<"d", "a", "y">>
S_week == <<"w", "e", "e", "k">>
S_month == <<"m", "o", "n", "t", "h">>

(***************************************************************************)
(* Filter parsers                                                          *)
(***************************************************************************)

\* statusParser that takes any word as the status.
statusParser_anyWord == map(seq(<<lit(S_is), word>>), "status")

statusParser ==
  map(seq(<<lit(S_is), alt(<<lit(S_open), lit(S_closed)>>)>>), "status")

authorParser == map(seq(<<lit(S_author), word>>), "author")

labelParser == map(seq(<<lit(S_label), word>>), "label")

typeParser ==
  map(seq(<<lit(S_type),
            alt(<<lit(S_bug), lit(S_feature), lit(S_docs), lit(S_enhancement)>>)>>),
      "type")

timeFilterParser ==
  map(seq(<<lit(S_updated),
            alt(<<lit(S_hour), lit(S_day), lit(S_week), lit(S_month)>>)>>),
      "updated")

\* orParser that takes a group of two leaves, parenthesised, among the
\* leaves of a group.
orParser_nested ==
  LET leaf == alt(<<statusParser, authorParser, labelParser, typeParser,
                    timeFilterParser>>)
      inner == map(seq(<<lit(S_lparen), many(leaf), lit(S_rparen)>>), "or")
  IN  map(seq(<<lit(S_lparen), many(alt(<<leaf, inner>>)), lit(S_rparen)>>), "or")

\* orParser that does not ask for the closing parenthesis.
orParser_unclosed ==
  map(seq(<<lit(S_lparen),
            many(alt(<<statusParser, authorParser, labelParser, typeParser,
                       timeFilterParser>>)),
            many(lit(S_rparen))>>),
      "or")

orParser ==
  map(seq(<<lit(S_lparen),
            many(alt(<<statusParser, authorParser, labelParser, typeParser,
                       timeFilterParser>>)),
            lit(S_rparen)>>),
      "or")

searchQueryParser ==
  map(many(alt(<<statusParser, authorParser, labelParser, typeParser,
                 timeFilterParser, orParser>>)),
      "query")

(***************************************************************************)
(* Predicate system                                                        *)
(***************************************************************************)

\* A compiled predicate with the diagnostics console.error received while
\* it was built.
Compiled(pred, errors) == [pred |-> pred, errors |-> errors]

matchAny == [p |-> "any"]
matchNone == [p |-> "none"]

isValidIssueStatus(value) == value \in {S_open, S_closed}

matchStatus(status) ==
  IF isValidIssueStatus(status)
    THEN Compiled([p |-> "status", arg |-> status], <<>>)
    ELSE Compiled(matchNone, <<Message("Invalid status", status)>>)

matchAuthor(author) == Compiled([p |-> "author", arg |-> author], <<>>)

matchLabel(label) == Compiled([p |-> "label", arg |-> label], <<>>)

isValidIssueType(value) == value \in {S_bug, S_feature, S_docs, S_enhancement}

matchType(type) ==
  IF isValidIssueType(type)
    THEN Compiled([p |-> "type", arg |-> type], <<>>)
    ELSE Compiled(matchNone, <<Message("Invalid type", type)>>)

isValidTimeFilter(value) == value \in {S_hour, S_day, S_week, S_month}

matchTime(filter) ==
  IF ~isValidTimeFilter(filter)
    THEN Compiled(matchNone, <<Message("Invalid time filter", filter)>>)
    ELSE Compiled([p |-> "time", arg |-> filter], <<>>)

\* and that asks for one of the predicates only.
and_some(preds) == [p |-> "or", preds |-> preds]

and(preds) == [p |-> "and", preds |-> preds]
or(preds) == [p |-> "or", preds |-> preds]

RECURSIVE Flatten(_)
Flatten(seqs) ==
  IF seqs = <<>> THEN <<>> ELSE Head(seqs) \o Flatten(Tail(seqs))

RECURSIVE createPredicate(_)
createPredicate(node) ==
  CASE node.type = "status" ->
         IF isValidIssueStatus(node.value) THEN matchStatus(node.value)
         ELSE Compiled(matchNone, <<>>)
    [] node.type = "author" -> matchAuthor(node.value)
    [] node.type = "label" -> matchLabel(node.value)
    [] node.type = "type" ->
         IF isValidIssueType(node.value) THEN matchType(node.value)
         ELSE Compiled(matchNone, <<>>)
    [] node.type = "updated" ->
         IF isValidTimeFilter(node.value) THEN matchTime(node.value)
         ELSE Compiled(matchNone, <<>>)
    [] node.type = "and" ->
         LET cs == [i \in 1..Len(node.value) |-> createPredicate(node.value[i])]
         IN  Compiled(and([i \in 1..Len(cs) |-> cs[i].pred]),
                      Flatten([i \in 1..Len(cs) |-> cs[i].errors]))
    [] node.type = "or" ->
         LET cs == [i \in 1..Len(node.value) |-> createPredicate(node.value[i])]
         IN  Compiled(or([i \in 1..Len(cs) |-> cs[i].pred]),
                      Flatten([i \in 1..Len(cs) |-> cs[i].errors]))

\* timeHolds with the thresholds excluded.
timeHolds_strict(filter, diff) ==
  CASE filter = S_hour -> diff < 3600
    [] filter = S_day -> diff < 86400
    [] filter = S_week -> diff < 604800
    [] filter = S_month -> diff < 2592000
    [] OTHER -> FALSE

\* The body of the closure matchTime returns; diff and the thresholds are
\* in seconds (3600000, 86400000, 604800000, 2592000000 ms in the source).
timeHolds(filter, diff) ==
  CASE filter = S_hour -> diff <= 3600
    [] filter = S_day -> diff <= 86400
    [] filter = S_week -> diff <= 604800
    [] filter = S_month -> diff <= 2592000
    [] OTHER -> FALSE

\* labelHolds looking at the first label only.
labelHolds_first(label, issue) ==
  issue.labels # <<>> /\ issue.labels[1] = label

\* The body of the closure matchLabel returns: issue.labels.includes(label)
labelHolds(label, issue) ==
  \E i \in 1..Len(issue.labels) : issue.labels[i] = label

\* Applying a predicate to an issue when Date.now() reads dateNow.
RECURSIVE Holds(_, _, _)
Holds(pred, issue, dateNow) ==
  CASE pred.p = "any" -> TRUE
    [] pred.p = "none" -> FALSE
    [] pred.p = "status" -> issue.status = pred.arg
    [] pred.p = "author" -> issue.author = pred.arg
    [] pred.p = "label" -> labelHolds(pred.arg, issue)
    [] pred.p = "type" -> issue.type = pred.arg
    [] pred.p = "time" -> timeHolds(pred.arg, dateNow - issue.updatedAt)
    [] pred.p = "and" ->
         \A i \in 1..Len(pred.preds) : Holds(pred.preds[i], issue, dateNow)
    [] pred.p = "or" ->
         \E i \in 1..Len(pred.preds) : Holds(pred.preds[i], issue, dateNow)

(***************************************************************************)
(* Issues                                                                  *)
(***************************************************************************)

S_alice == <<"a", "l", "i", "c", "e">>
S_bob == <<"b", "o", "b">>
S_bobby == <<"b", "o", "b", "b", "y">>

\* The clock when the first call starts: 30 days after the epoch.
StartTime == 30 * 86400

Issue(id, status, author, labels, type, updatedAt) ==
  [id |-> id, title |-> "Test Issue", status |-> status, author |-> author,
   labels |-> labels, milestone |-> "null", assignee |-> "null",
   type |-> type, updatedAt |-> updatedAt]

\* The records the collections are made of.  The first two are the
\* testIssues of the source; updatedAt puts each record exactly on one
\* threshold when the clock reads StartTime.
IssuePool ==
  { Issue("1", S_open, S_alice, <<S_bug>>, S_bug, StartTime - 3600),
    Issue("2", S_closed, S_bob, <<S_enhancement>>, S_feature, StartTime - 86400),
    Issue("3", S_open, S_bobby, <<S_enhancement, S_bug, S_bug>>, S_docs,
          StartTime - 604800),
    Issue("4", S_closed, S_alice, <<>>, S_enhancement, StartTime - 2592000) }

MaxIssues == 2

RECURSIVE SeqsUpTo(_, _)
SeqsUpTo(S, n) ==
  IF n = 0 THEN {<<>>}
  ELSE LET shorter == SeqsUpTo(S, n - 1)
       IN  shorter \cup {Append(s, x) : s \in {t \in shorter : Len(t) = n - 1}, x \in S}

IssueSeqs == SeqsUpTo(IssuePool, MaxIssues)

\* No element occurs twice in s.
Distinct(s) == \A i, j \in 1..Len(s) : i < j => s[i] # s[j]

(***************************************************************************)
(* Query strings                                                           *)
(***************************************************************************)

SP == <<" ">>

Leaf(type, value) == [type |-> type, value |-> value]

Prefix(type) ==
  CASE type = "status" -> S_is
    [] type = "author" -> S_author
    [] type = "label" -> S_label
    [] type = "type" -> S_type
    [] type = "updated" -> S_updated

\* The text of a leaf filter, field:value.
LeafText(leaf) == Prefix(leaf.type) \o leaf.value

RECURSIVE JoinLeaves(_)
JoinLeaves(leaves) ==
  IF leaves = <<>> THEN <<>>
  ELSE IF Len(leaves) = 1 THEN LeafText(leaves[1])
  ELSE LeafText(leaves[1]) \o SP \o JoinLeaves(Tail(leaves))

\* The text of a parenthesised group of leaves.
GroupText(leaves) == S_lparen \o JoinLeaves(leaves) \o S_rparen

\* A top-level filter is a bare leaf or a parenthesised group of leaves.
Bare(leaf) == [group |-> FALSE, leaves |-> <<leaf>>]
Group(leaves) == [group |-> TRUE, leaves |-> leaves]

ItemText(item) ==
  IF item.group THEN GroupText(item.leaves) ELSE LeafText(item.leaves[1])

RECURSIVE QueryText(_)
QueryText(items) ==
  IF items = <<>> THEN <<>>
  ELSE IF Len(items) = 1 THEN ItemText(items[1])
  ELSE ItemText(items[1]) \o SP \o QueryText(Tail(items))

Leaves ==
  { Leaf("status", S_open), Leaf("status", S_closed),
    Leaf("author", S_alice), Leaf("author", S_bob),
    Leaf("label", S_bug), Leaf("label", S_enhancement),
    Leaf("type", S_bug), Leaf("type", S_feature), Leaf("type", S_docs),
    Leaf("type", S_enhancement),
    Leaf("updated", S_hour), Leaf("updated", S_day), Leaf("updated", S_week),
    Leaf("updated", S_month) }

\* The leaves groups are made of.
GroupLeaves ==
  { Leaf("status", S_open), Leaf("author", S_alice), Leaf("author", S_bob),
    Leaf("updated", S_hour) }

MaxGroup == 2

Groups == {Group(ls) : ls \in {s \in SeqsUpTo(GroupLeaves, MaxGroup) : Distinct(s)}}

\* The filters queries of several filters are made of.
TopItems ==
  { Bare(Leaf("status", S_open)), Bare(Leaf("label", S_bug)),
    Bare(Leaf("updated", S_week)),
    Group(<<Leaf("status", S_closed), Leaf("author", S_alice)>>) }

MaxItems == 2

ItemSeqs ==
  {<<>>} \cup {<<Bare(l)>> : l \in Leaves} \cup {<<g>> : g \in Groups}
         \cup {s \in SeqsUpTo(TopItems, MaxItems) : Len(s) >= 2 /\ Distinct(s)}

S_maybe == <<"m", "a", "y", "b", "e">>
S_bogus == <<"b", "o", "g", "u", "s">>

\* Query strings outside the grammar.
MalformedQueries ==
  { S_is \o S_maybe,
    S_bogus,
    S_bogus \o SP \o S_is \o S_open,
    S_is \o S_open \o SP \o S_bogus,
    S_type \o S_maybe \o SP \o S_is \o S_closed,
    S_lparen \o S_is \o S_open,
    S_lparen \o S_lparen \o S_is \o S_open \o S_rparen \o S_rparen,
    S_is \o S_open \o S_rparen,
    S_author,
    S_updated \o S_bug,
    S_is \o S_closed \o SP \o S_lparen \o S_is \o S_open }

\* Constant tables: every structured query with its text.
LeafTable == {[leaf |-> l, text |-> LeafText(l)] : l \in Leaves}
GroupTable == {[group |-> g, text |-> ItemText(g)] : g \in Groups}
QueryTable == {[items |-> its, text |-> QueryText(its)] : its \in ItemSeqs}

Queries == {e.text : e \in QueryTable} \cup MalformedQueries

(***************************************************************************)
(* Query execution                                                         *)
(***************************************************************************)

NumCalls == 2
MaxTicks == 1

Calls == 1..NumCalls

VARIABLES
  issues,   \* the caller's array of issues
  now,      \* what Date.now() reads
  calls,    \* calls[c]: the state of the c-th call of executeQuery
  log,      \* what console.error has received
  app,      \* one application of a parser, or of createPredicate, on its own
  engine    \* the run of the script of search-engine.ts

vars == <<issues, now, calls, log, app, engine>>

NoNode == [type |-> "none", value |-> <<>>]

IdleCall ==
  [pc |-> "idle", query |-> <<>>, src |-> 0, ast |-> NoNode,
   predicate |-> matchNone, idx |-> 0, out |-> <<>>]

NoResult == failure("NONE", Message("none", <<>>), 0, <<>>)

NoIssue == Issue("0", <<>>, <<>>, <<>>, <<>>, 0)

\* No parser is being applied.  In an application, i, remaining and results
\* are the locals of the loop of seq, alt and many; invoked lists the
\* parsers the combinator has called, with the input each was given; node
\* and predicate are the argument and the value of createPredicate; issue
\* is the argument of the predicate, at what Date.now() read when the
\* predicate was applied, and verdict the value the predicate returned.
IdleApp ==
  [pc |-> "idle", parser |-> word, input |-> <<>>, i |-> 0,
   remaining |-> <<>>, results |-> <<>>, invoked |-> <<>>,
   result |-> NoResult, node |-> NoNode, predicate |-> matchNone,
   issue |-> NoIssue, at |-> 0, verdict |-> FALSE]

(***************************************************************************)
(* search-engine.ts: the document search engine written before the DSL.    *)
(* Its definitions carry the suffix Engine where the DSL has one of the    *)
(* same name.                                                              *)
(***************************************************************************)

S_priority == <<"p", "r", "i", "o", "r", "i", "t", "y", ":">>
S_created == <<"c", "r", "e", "a", "t", "e", "d", ":">>
S_document == <<"d", "o", "c", "u", "m", "e", "n", "t">>
S_folder == <<"f", "o", "l", "d", "e", "r">>
S_low == <<"l", "o", "w">>
S_medium == <<"m", "e", "d", "i", "u", "m">>
S_high == <<"h", "i", "g", "h">>

\* failure(error) with a ParseError: no message.
failureEngine(code, position, input) ==
  [right |-> FALSE, code |-> code, position |-> position, input |-> input]

\* lit(match)(input): the error carries the literal, not the input.
litEngine(match, input) ==
  IF StartsWith(input, match)
    THEN success(match, Trim(Slice(input, Len(match))))
    ELSE failureEngine("INVALID_TOKEN", 0, match)

RECURSIVE RunEngine(_, _)
RECURSIVE altEngine(_, _, _)
RECURSIVE seqEngine(_, _, _, _)

\* alt(...parsers)(input): the loop from parser number i on.
altEngine(parsers, i, input) ==
  IF i > Len(parsers)
    THEN failureEngine("INVALID_TOKEN", 0, input)
    ELSE LET result == RunEngine(parsers[i], input)
         IN  IF isRight(result) THEN result
             ELSE altEngine(parsers, i + 1, input)

\* seq(...parsers)(input): the loop from parser number i on.
seqEngine(parsers, i, remaining, results) ==
  IF i > Len(parsers)
    THEN success(results, remaining)
    ELSE LET result == RunEngine(parsers[i], remaining)
         IN  IF isLeft(result) THEN result
             ELSE seqEngine(parsers, i + 1, result.remaining,
                            Append(results, result.value))

\* Applying a parser of search-engine.ts to an input.
RunEngine(p, input) ==
  CASE p.op = "lit" -> litEngine(p.match, input)
    [] p.op = "alt" -> altEngine(p.parsers, 1, input)
    [] p.op = "seq" -> seqEngine(p.parsers, 1, input, <<>>)

typeParserEngine ==
  seq(<<lit(S_type), alt(<<lit(S_document), lit(S_folder)>>)>>)

priorityParser ==
  seq(<<lit(S_priority), alt(<<lit(S_low), lit(S_medium), lit(S_high)>>)>>)

timeFilterParserEngine ==
  seq(<<lit(S_created),
        alt(<<lit(S_hour), lit(S_day), lit(S_week), lit(S_month)>>)>>)

searchQueryParserEngine ==
  seq(<<typeParserEngine, priorityParser, timeFilterParserEngine>>)

\* String.prototype.includes
Includes(s, t) ==
  \E k \in 0..(Len(s) - Len(t)) : SubSeq(s, k + 1, k + Len(t)) = t

matchTypeEngine(type) == [p |-> "docType", arg |-> type]
matchPriority(level) == [p |-> "priority", arg |-> level]
matchTimeEngine(filter) == [p |-> "created", arg |-> filter]

\* ([key, value]) => the predicate of the filter
searchQueryMapFn(pair) ==
  LET key == pair[1]
      value == pair[2]
  IN  IF Includes(key, SubSeq(S_type, 1, 4)) THEN matchTypeEngine(value)
      ELSE IF Includes(key, SubSeq(S_priority, 1, 8)) THEN matchPriority(value)
      ELSE IF Includes(key, SubSeq(S_created, 1, 7)) THEN matchTimeEngine(value)
      ELSE matchAny

\* createSearchPredicate with a failed parse compiled to the predicate that
\* holds for every document.
createSearchPredicate_all(result) ==
  IF isRight(result)
    THEN and([i \in 1..Len(result.value) |-> searchQueryMapFn(result.value[i])])
    ELSE and(<<>>)

createSearchPredicate(result) ==
  IF isRight(result)
    THEN and([i \in 1..Len(result.value) |-> searchQueryMapFn(result.value[i])])
    ELSE and(<<matchNone>>)

\* Applying a predicate of search-engine.ts to a document when Date.now()
\* reads dateNow (seconds, as for the issues).
RECURSIVE HoldsEngine(_, _, _)
HoldsEngine(pred, doc, dateNow) ==
  CASE pred.p = "any" -> TRUE
    [] pred.p = "none" -> FALSE
    [] pred.p = "docType" -> doc.type = pred.arg
    [] pred.p = "priority" -> doc.priority = pred.arg
    [] pred.p = "created" -> timeHolds(pred.arg, dateNow - doc.createdAt)
    [] pred.p = "and" ->
         \A i \in 1..Len(pred.preds) : HoldsEngine(pred.preds[i], doc, dateNow)

\* generateTestDocuments: document number index + 1.
Document(index) ==
  [id |-> index + 1,
   content |-> <<>>,
   type |-> <<S_document, S_folder>>[(index % 2) + 1],
   createdAt |-> StartTime - index * 3600,
   priority |-> <<S_high, S_medium, S_low>>[(index % 3) + 1],
   clientIds |-> IF index % 2 = 0 THEN <<index, index + 100>> ELSE <<>>]

DocPool == {Document(index) : index \in 0..2}

MaxDocs == 2

\* The text type:t priority:p created:c with sep between the filters and
\* rest after them.
EngineText(t, p, c, sep, rest) ==
  S_type \o t \o sep \o S_priority \o p \o sep \o S_created \o c \o rest

\* Queries that begin with the three filters in their order, each with a
\* value of its enumeration (the filters set apart by a space or by
\* nothing, and followed by nothing or by more text) ...
GoodEngineQueries ==
  { EngineText(t, p, c, sep, rest) :
      t \in {S_document, S_folder}, p \in {S_medium, S_high},
      c \in {S_hour, S_week}, sep \in {SP, <<>>}, rest \in {<<>>, SP \o S_bogus} }

\* ... and queries that do not: a filter missing, the order changed, a
\* value outside the enumeration, upper case, a leading space.
BadEngineQueries ==
  { <<>>,
    S_bogus,
    S_type \o S_document,
    S_type \o S_document \o SP \o S_priority \o S_medium,
    S_priority \o S_medium \o SP \o S_type \o S_document \o SP \o S_created \o S_week,
    S_type \o S_document \o SP \o S_created \o S_week \o SP \o S_priority \o S_medium,
    EngineText(S_bug, S_medium, S_week, SP, <<>>),
    EngineText(S_document, S_bogus, S_week, SP, <<>>),
    EngineText(S_document, S_medium, S_maybe, SP, <<>>),
    SP \o EngineText(S_document, S_medium, S_week, SP, <<>>),
    <<"T", "Y", "P", "E", ":">> \o S_document \o SP \o S_priority \o S_medium
      \o SP \o S_created \o S_week,
    S_created \o S_week }

EngineQueries == GoodEngineQueries \cup BadEngineQueries

\* The script has not started.
IdleEngine ==
  [pc |-> "idle", documents |-> <<>>, input |-> <<>>,
   parsedSearchQuery |-> failureEngine("NONE", 0, <<>>),
   predicate |-> matchNone, idx |-> 0, results |-> <<>>, printed |-> <<>>]

\* The array a call was given: the caller's array (src = 0) or the array
\* an earlier call returned.
Input(c) == IF calls[c].src = 0 THEN issues ELSE calls[calls[c].src].out

\* results as one buffer shared by all calls.
results_shared(c) == calls[1].out

\* The result array issues.filter is building for call c: one per call.
results(c) == calls[c].out

\* filterPush adding a kept element twice.
filterPush_twice(out, issue, keep) ==
  IF keep THEN Append(Append(out, issue), issue) ELSE out

\* filterPush adding a kept element in front.
filterPush_front(out, issue, keep) == IF keep THEN <<issue>> \o out ELSE out

\* What Array.prototype.filter appends to its result for one element.
filterPush(out, issue, keep) == IF keep THEN Append(out, issue) ELSE out

\* filterReceiver removing a rejected element from the array in place.
filterReceiver_splice(array, idx, keep) ==
  IF keep THEN array
  ELSE SubSeq(array, 1, idx - 1) \o SubSeq(array, idx + 1, Len(array))

\* What Array.prototype.filter leaves in the array it iterates over.
filterReceiver(array, idx, keep) == array

Init ==
  /\ issues \in IssueSeqs
  /\ now = StartTime
  /\ calls = [c \in Calls |-> IdleCall]
  /\ log = <<>>
  /\ app = IdleApp
  /\ engine = IdleEngine

\* executeQuery(query, issues) up to the call of issues.filter: the query
\* is parsed and, on success, the AST compiled.
Begin(c, query, src) ==
  /\ calls[c].pc = "idle"
  /\ src # 0 => calls[src].pc = "done"
  /\ LET parsedQuery == Run(searchQueryParser, query)
     IN  IF isLeft(parsedQuery)
           THEN /\ log' = Append(log, Message("Parse Error", parsedQuery.message.arg))
                /\ calls' = [calls EXCEPT ![c] =
                     [IdleCall EXCEPT !.pc = "done", !.query = query, !.src = src]]
           ELSE LET ast == parsedQuery.value
                    compiled == createPredicate(ast)
                IN  /\ log' = log \o compiled.errors
                    /\ calls' = [calls EXCEPT ![c] =
                         [IdleCall EXCEPT !.pc = "filter", !.query = query,
                                          !.src = src, !.ast = ast,
                                          !.predicate = compiled.pred,
                                          !.idx = 1]]
  /\ UNCHANGED <<issues, now, app, engine>>

\* issues.filter(predicate), one element: the predicate is applied to the
\* element (reading the clock) and the element kept or dropped.  The clock
\* does not advance within the evaluation of one element; it can between
\* two elements.
FilterStep(c) ==
  /\ calls[c].pc = "filter"
  /\ calls[c].idx <= Len(Input(c))
  /\ LET idx == calls[c].idx
         issue == Input(c)[idx]
         keep == Holds(calls[c].predicate, issue, now)
     IN  /\ calls' = [calls EXCEPT ![c].out = filterPush(results(c), issue, keep),
                                   ![c].idx = idx + 1]
         /\ issues' = IF calls[c].src = 0
                        THEN filterReceiver(issues, idx, keep)
                        ELSE issues
  /\ UNCHANGED <<now, log, app, engine>>

\* issues.filter has visited every element: executeQuery returns.
Return(c) ==
  /\ calls[c].pc = "filter"
  /\ calls[c].idx > Len(Input(c))
  /\ calls' = [calls EXCEPT ![c].pc = "done"]
  /\ UNCHANGED <<issues, now, log, app, engine>>

\* Time passes.
Tick ==
  /\ now < StartTime + MaxTicks
  /\ now' = now + 1
  /\ UNCHANGED <<issues, calls, log, app, engine>>

Running(c) == calls[c].pc = "filter"
Done(c) == calls[c].pc = "done"

\* A caller that runs a query on its array ...
Start(query) ==
  /\ \A c \in Calls : calls[c].pc = "idle"
  /\ Begin(1, query, 0)

\* ... and then filters the result again with the same query.
Again(c) ==
  /\ c > 1
  /\ Done(c - 1)
  /\ Begin(c, calls[c - 1].query, c - 1)

\* Callers that run queries on the array, or on an array an earlier call
\* returned, while other calls are under way.  The calls are numbered in
\* the order they begin; the array is made of the two testIssues.
ConcQueries ==
  { LeafText(Leaf("status", S_open)),
    LeafText(Leaf("updated", S_hour)),
    GroupText(<<Leaf("author", S_bob), Leaf("updated", S_hour)>>) }

ConcPool == {i \in IssuePool : i.id \in {"1", "2"}}

InitConc ==
  /\ issues \in SeqsUpTo(ConcPool, MaxIssues)
  /\ now = StartTime
  /\ calls = [c \in Calls |-> IdleCall]
  /\ log = <<>>
  /\ app = IdleApp
  /\ engine = IdleEngine

Invoke(c, query) ==
  /\ c > 1 => calls[c - 1].pc # "idle"
  /\ \E src \in {0} \cup {d \in Calls : d < c} : Begin(c, query, src)

NextConc ==
  \/ \E c \in Calls : \E query \in ConcQueries : Invoke(c, query)
  \/ \E c \in Calls : FilterStep(c)
  \/ \E c \in Calls : Return(c)
  \/ Tick

SpecConc == InitConc /\ [][NextConc]_vars

Next ==
  \/ \E query \in Queries : Start(query)
  \/ \E c \in Calls : Again(c)
  \/ \E c \in Calls : FilterStep(c)
  \/ \E c \in Calls : Return(c)
  \/ Tick

Spec == Init /\ [][Next]_vars

(***************************************************************************)
(* One parser applied to one input                                         *)
(***************************************************************************)

S_IS == <<"I", "S", ":">>
S_good == <<"g", "o", "o", "d">>
S_first == <<"f", "i", "r", "s", "t">>
S_issue == <<"i", "s", "s", "u", "e">>
HY == <<"-">>
TAB == <<"\t">>

\* The parsers without arguments that are parsers themselves.
Atoms == {lit(S_is), lit(S_open), lit(S_closed), lit(S_author), word}

MaxParsers == 2

ParserLists == SeqsUpTo(Atoms, MaxParsers)

\* The parsers applied: the atoms, seq and alt of up to MaxParsers atoms,
\* many of an atom, and the parsers of the grammar.  (many is not given a
\* parser that succeeds without consuming input: its loop does not end.)
ParserPool ==
  Atoms
    \cup {lit(S_lparen), lit(S_rparen)}
    \cup {seq(ps) : ps \in ParserLists}
    \cup {alt(ps) : ps \in ParserLists}
    \cup {many(a) : a \in Atoms}
    \cup {statusParser, authorParser, labelParser, typeParser,
          timeFilterParser, orParser, searchQueryParser,
          orParser.parser.parsers[2], orParser.parser.parsers[2].parser,
          searchQueryParser.parser, searchQueryParser.parser.parser}

\* The top-level filters of the structured queries given to the parsers.
ParseItems ==
  { Bare(Leaf("updated", S_day)),
    Group(<<>>),
    Group(<<Leaf("type", S_docs)>>),
    Group(<<Leaf("label", S_bug), Leaf("status", S_open), Leaf("label", S_bug)>>) }

MaxFilters == 2

ParseTable ==
  {[items |-> its, text |-> QueryText(its)] : its \in SeqsUpTo(ParseItems, MaxFilters)}

\* The three fields whose value is one of an enumeration.
EnumFields ==
  { [parser |-> statusParser, type |-> "status", prefix |-> S_is,
     values |-> {S_open, S_closed}],
    [parser |-> typeParser, type |-> "type", prefix |-> S_type,
     values |-> {S_bug, S_feature, S_docs, S_enhancement}],
    [parser |-> timeFilterParser, type |-> "updated", prefix |-> S_updated,
     values |-> {S_hour, S_day, S_week, S_month}] }

\* What follows an enumerated value in the inputs: nothing, more letters,
\* another filter with and without whitespace before it, a parenthesis.
Suffixes ==
  { <<>>, <<"e", "d">>, S_label \o S_bug, SP \o S_is \o S_open, S_rparen }

EnumInputs ==
  UNION { { f.prefix \o v \o suffix : v \in f.values, suffix \in Suffixes }
          : f \in EnumFields }

\* The inputs: the structured queries, and texts with whitespace at either
\* end, upper case, hyphens, values outside the enumerations, unbalanced
\* parentheses.
InputPool ==
  {e.text : e \in ParseTable}
    \cup { S_is \o S_open,
           S_is \o SP \o S_open \o SP,
           S_is \o S_closed \o SP \o TAB \o S_is \o S_open,
           S_IS \o S_open,
           SP \o S_is \o S_open,
           S_open \o S_closed \o SP,
           S_closed \o SP \o S_open \o SP \o S_is,
           S_alice \o SP \o S_bob \o SP,
           S_good \o HY \o S_first \o HY \o S_issue,
           S_label \o S_good \o HY \o S_first \o HY \o S_issue,
           HY \o S_good,
           SP \o S_bogus \o SP,
           S_is \o S_maybe,
           S_is \o S_open \o <<"e", "d">>,
           S_is \o S_open \o S_label \o S_bug,
           S_is \o S_open \o SP \o S_label \o S_bug,
           S_is \o SP \o S_open,
           S_lparen \o S_is \o S_open \o S_label \o S_bug \o S_rparen,
           S_type \o S_open \o SP \o S_is \o S_open,
           S_updated \o S_bug,
           S_author \o SP \o S_alice,
           S_author,
           S_lparen \o SP \o S_rparen,
           S_lparen \o S_is \o S_maybe \o S_rparen,
           S_lparen \o S_is \o S_open,
           S_is \o S_open \o SP \o S_lparen \o S_rparen,
           S_lparen \o S_lparen \o S_is \o S_open \o S_rparen \o S_rparen,
           S_lparen \o S_is \o S_open \o SP \o S_lparen \o S_is \o S_closed
             \o S_rparen \o S_rparen,
           S_lparen \o S_is \o S_open \o SP \o S_lparen \o S_is \o S_closed
             \o SP \o S_author \o S_alice \o S_rparen \o S_rparen,
           S_updated \o S_day \o SP \o S_lparen \o S_lparen \o S_is \o S_closed
             \o SP \o S_author \o S_alice \o S_rparen \o SP \o S_is \o S_open
             \o S_rparen }
    \cup EnumInputs

\* Hand-constructed FilterNodes given to createPredicate: leaves with values
\* inside and outside the enumerations, alone and under and/or.
NodeList ==
  << Leaf("status", S_maybe),
     Leaf("type", S_open),
     Leaf("updated", S_bug),
     Leaf("status", S_open),
     Leaf("type", S_bug),
     Leaf("updated", S_week),
     Leaf("author", S_maybe),
     Leaf("label", S_month),
     [type |-> "or", value |-> <<Leaf("status", S_maybe), Leaf("author", S_alice)>>],
     [type |-> "and", value |-> <<Leaf("updated", S_bug), Leaf("author", S_alice)>>],
     [type |-> "and",
      value |-> <<Leaf("label", S_bug),
                  [type |-> "or",
                   value |-> <<Leaf("type", S_maybe), Leaf("status", S_open)>>]>>],
     [type |-> "or", value |-> <<>>],
     [type |-> "and", value |-> <<>>],
     Leaf("updated", S_hour),
     Leaf("updated", S_day),
     Leaf("updated", S_month),
     [type |-> "or",
      value |-> <<[type |-> "and",
                   value |-> <<Leaf("status", S_open),
                               [type |-> "or",
                                value |-> <<Leaf("author", S_bobby),
                                            Leaf("updated", S_hour)>>]>>],
                  [type |-> "and", value |-> <<>>],
                  Leaf("type", S_feature)>>],
     [type |-> "and",
      value |-> <<[type |-> "or", value |-> <<>>], Leaf("status", S_open)>>],
     [type |-> "and",
      value |-> <<[type |-> "and", value |-> <<Leaf("label", S_enhancement)>>],
                  [type |-> "or",
                   value |-> <<Leaf("type", S_feature), Leaf("type", S_docs)>>]>>] >>

\* The issues the compiled predicates are applied to: the pool, an issue
\* updated one second less than an hour before the clock started, and an
\* issue whose updatedAt lies in the future.
EvalPool ==
  IssuePool
    \cup { Issue("5", S_closed, S_bob, <<S_bug>>, S_docs, StartTime - 3599),
           Issue("6", S_open, S_bob, <<>>, S_bug, StartTime + 10) }

InitParse ==
  /\ issues = <<>>
  /\ now = StartTime
  /\ calls = [c \in Calls |-> IdleCall]
  /\ log = <<>>
  /\ app = IdleApp
  /\ engine = IdleEngine

\* parser(input) is called: the locals of its body are initialised.
Apply(parser, input) ==
  /\ app.pc = "idle"
  /\ app' = [IdleApp EXCEPT !.pc = "run", !.parser = parser, !.input = input,
                            !.i = 1, !.remaining = input]
  /\ UNCHANGED <<issues, now, calls, log, engine>>

\* A caller applies one of the parsers to one of the inputs.
ApplyParser ==
  /\ app.pc = "idle"
  /\ \E parser \in ParserPool : \E input \in InputPool : Apply(parser, input)

Call(parser, input) == [parser |-> parser, input |-> input]

\* The body of lit(match): no loop, the result at once.
LitStep ==
  /\ app.pc = "run"
  /\ app.parser.op = "lit"
  /\ app' = [app EXCEPT !.pc = "done",
                        !.result = litParse(app.parser.match, app.input)]
  /\ UNCHANGED <<issues, now, calls, log, engine>>

\* The body of word().
WordStep ==
  /\ app.pc = "run"
  /\ app.parser.op = "word"
  /\ app' = [app EXCEPT !.pc = "done", !.result = wordParse(app.input)]
  /\ UNCHANGED <<issues, now, calls, log, engine>>

\* The body of map(parser, fn): parser is called once, fn on its value.
MapStep ==
  /\ app.pc = "run"
  /\ app.parser.op = "map"
  /\ app' = [app EXCEPT !.pc = "done",
                        !.invoked = <<Call(app.parser.parser, app.input)>>,
                        !.result = mapParse(app.parser.parser, app.parser.fn,
                                            app.input)]
  /\ UNCHANGED <<issues, now, calls, log, engine>>

\* seqIter that goes on to the next parser after a failure.
seqIter_goesOn(st) ==
  LET parsers == st.parser.parsers
  IN  IF st.i > Len(parsers)
        THEN [st EXCEPT !.pc = "done",
                        !.result = success(st.results, st.remaining)]
        ELSE LET result == Run(parsers[st.i], st.remaining)
                 called == Append(st.invoked, Call(parsers[st.i], st.remaining))
             IN  IF isLeft(result)
                   THEN [st EXCEPT !.i = st.i + 1, !.invoked = called]
                   ELSE [st EXCEPT !.i = st.i + 1, !.invoked = called,
                                   !.results = Append(st.results, result.value),
                                   !.remaining = result.remaining]

\* One turn of the loop of seq(...parsers), or the return after it.
seqIter(st) ==
  LET parsers == st.parser.parsers
  IN  IF st.i > Len(parsers)
        THEN [st EXCEPT !.pc = "done",
                        !.result = success(st.results, st.remaining)]
        ELSE LET result == Run(parsers[st.i], st.remaining)
                 called == Append(st.invoked, Call(parsers[st.i], st.remaining))
             IN  IF isLeft(result)
                   THEN [st EXCEPT !.pc = "done", !.invoked = called,
                                   !.result = result]
                   ELSE [st EXCEPT !.i = st.i + 1, !.invoked = called,
                                   !.results = Append(st.results, result.value),
                                   !.remaining = result.remaining]

SeqStep ==
  /\ app.pc = "run"
  /\ app.parser.op = "seq"
  /\ app' = seqIter(app)
  /\ UNCHANGED <<issues, now, calls, log, engine>>

\* altIter that hands the next alternative the input the failed one left
\* after its last successful part.
altIter_consumed(st) ==
  LET parsers == st.parser.parsers
  IN  IF st.i > Len(parsers)
        THEN [st EXCEPT !.pc = "done",
                        !.result = failure("INVALID_TOKEN",
                                           Message("No matching alternative", <<>>),
                                           0, st.input)]
        ELSE LET result == Run(parsers[st.i], st.remaining)
                 called == Append(st.invoked, Call(parsers[st.i], st.remaining))
             IN  IF isRight(result)
                   THEN [st EXCEPT !.pc = "done", !.invoked = called,
                                   !.result = result]
                   ELSE [st EXCEPT !.i = st.i + 1, !.invoked = called,
                                   !.remaining = result.input]

\* One turn of the loop of alt(...parsers), or the return after it.
altIter(st) ==
  LET parsers == st.parser.parsers
  IN  IF st.i > Len(parsers)
        THEN [st EXCEPT !.pc = "done",
                        !.result = failure("INVALID_TOKEN",
                                           Message("No matching alternative", <<>>),
                                           0, st.input)]
        ELSE LET result == Run(parsers[st.i], st.input)
                 called == Append(st.invoked, Call(parsers[st.i], st.input))
             IN  IF isRight(result)
                   THEN [st EXCEPT !.pc = "done", !.invoked = called,
                                   !.result = result]
                   ELSE [st EXCEPT !.i = st.i + 1, !.invoked = called]

AltStep ==
  /\ app.pc = "run"
  /\ app.parser.op = "alt"
  /\ app' = altIter(app)
  /\ UNCHANGED <<issues, now, calls, log, engine>>

\* manyIter that gives parser the same input again after a success.
manyIter_rewinds(st) ==
  LET trimmedRemaining == Trim(st.remaining)
      result == Run(st.parser.parser, trimmedRemaining)
      called == Append(st.invoked, Call(st.parser.parser, trimmedRemaining))
  IN  IF isLeft(result)
        THEN [st EXCEPT !.pc = "done", !.invoked = called,
                        !.result = success(st.results, st.remaining)]
        ELSE [st EXCEPT !.i = st.i + 1, !.invoked = called,
                        !.results = Append(st.results, result.value),
                        !.remaining = trimmedRemaining]

\* manyIter that returns the trimmed remaining input.
manyIter_trimmed(st) ==
  LET trimmedRemaining == Trim(st.remaining)
      result == Run(st.parser.parser, trimmedRemaining)
      called == Append(st.invoked, Call(st.parser.parser, trimmedRemaining))
  IN  IF isLeft(result)
        THEN [st EXCEPT !.pc = "done", !.invoked = called,
                        !.result = success(st.results, trimmedRemaining)]
        ELSE [st EXCEPT !.i = st.i + 1, !.invoked = called,
                        !.results = Append(st.results, result.value),
                        !.remaining = result.remaining]

\* One turn of the loop of many(parser): the break and the return are part
\* of the turn in which parser fails.
manyIter(st) ==
  LET trimmedRemaining == Trim(st.remaining)
      result == Run(st.parser.parser, trimmedRemaining)
      called == Append(st.invoked, Call(st.parser.parser, trimmedRemaining))
  IN  IF isLeft(result)
        THEN [st EXCEPT !.pc = "done", !.invoked = called,
                        !.result = success(st.results, st.remaining)]
        ELSE [st EXCEPT !.i = st.i + 1, !.invoked = called,
                        !.results = Append(st.results, result.value),
                        !.remaining = result.remaining]

ManyStep ==
  /\ app.pc = "run"
  /\ app.parser.op = "many"
  /\ app' = manyIter(app)
  /\ UNCHANGED <<issues, now, calls, log, engine>>

\* createPredicate(node): what console.error receives goes to the log.
Compile(node) ==
  LET compiled == createPredicate(node)
  IN  /\ app' = [app EXCEPT !.pc = "compiled", !.node = node,
                            !.predicate = compiled.pred]
      /\ log' = log \o compiled.errors
      /\ UNCHANGED <<issues, now, calls, engine>>

\* createPredicate is given a FilterNode made by hand.
CompileNode(node) ==
  /\ app.pc = "idle"
  /\ Compile(node)

\* createPredicate is given the AST searchQueryParser returned.
CompileParsed ==
  /\ app.pc = "done"
  /\ app.parser = searchQueryParser
  /\ isRight(app.result)
  /\ Compile(app.result.value)

\* predicate(issue): the predicate createPredicate returned is applied to
\* an issue; matchTime reads the clock now.
Evaluate(issue) ==
  /\ app.pc = "compiled"
  /\ app' = [app EXCEPT !.pc = "evaluated", !.issue = issue, !.at = now,
                        !.verdict = Holds(app.predicate, issue, now)]
  /\ UNCHANGED <<issues, now, calls, log, engine>>

NextParse ==
  \/ ApplyParser
  \/ LitStep
  \/ WordStep
  \/ MapStep
  \/ SeqStep
  \/ AltStep
  \/ ManyStep
  \/ \E k \in 1..Len(NodeList) : CompileNode(NodeList[k])
  \/ CompileParsed
  \/ \E issue \in EvalPool : Evaluate(issue)
  \/ Tick

SpecParse == InitParse /\ [][NextParse]_vars

(***************************************************************************)
(* The script of search-engine.ts                                          *)
(***************************************************************************)

\* const documents = generateTestDocuments(...).  (buildIndex is left out:
\* executeQuery does not read the index it is given.)
InitEngine ==
  /\ issues = <<>>
  /\ now = StartTime
  /\ calls = [c \in Calls |-> IdleCall]
  /\ log = <<>>
  /\ app = IdleApp
  /\ engine \in {[IdleEngine EXCEPT !.documents = docs] :
                   docs \in SeqsUpTo(DocPool, MaxDocs)}

\* const parsedSearchQuery = searchQueryParser(input)
EngineParse(input) ==
  /\ engine.pc = "idle"
  /\ engine' = [engine EXCEPT
                  !.pc = "parsed", !.input = input,
                  !.parsedSearchQuery = RunEngine(searchQueryParserEngine, input)]
  /\ UNCHANGED <<issues, now, calls, log, app>>

\* createSearchPredicate(parsedSearchQuery), the argument of executeQuery
EngineCompile ==
  /\ engine.pc = "parsed"
  /\ engine' = [engine EXCEPT
                  !.pc = "filter", !.idx = 1,
                  !.predicate = createSearchPredicate(engine.parsedSearchQuery)]
  /\ UNCHANGED <<issues, now, calls, log, app>>

\* docs.filter(predicate), one element
EngineFilterStep ==
  /\ engine.pc = "filter"
  /\ engine.idx <= Len(engine.documents)
  /\ LET doc == engine.documents[engine.idx]
         keep == HoldsEngine(engine.predicate, doc, now)
     IN  engine' = [engine EXCEPT
                      !.idx = engine.idx + 1,
                      !.results = filterPush(engine.results, doc, keep)]
  /\ UNCHANGED <<issues, now, calls, log, app>>

\* executeQuery returns; console.log prints the query and the number of
\* results.
EngineReturn ==
  /\ engine.pc = "filter"
  /\ engine.idx > Len(engine.documents)
  /\ engine' = [engine EXCEPT
                  !.pc = "done",
                  !.printed = <<engine.input, Len(engine.results)>>]
  /\ UNCHANGED <<issues, now, calls, log, app>>

NextEngine ==
  \/ \E input \in EngineQueries : EngineParse(input)
  \/ EngineCompile
  \/ EngineFilterStep
  \/ EngineReturn
  \/ Tick

SpecEngine == InitEngine /\ [][NextEngine]_vars

TypeOK ==
  /\ issues \in IssueSeqs
  /\ now \in StartTime..(StartTime + MaxTicks)
  /\ \A c \in Calls : calls[c].pc \in {"idle", "filter", "done"}

(***************************************************************************)
(* Properties                                                              *)
(***************************************************************************)

\* The elements of R whose index is in K, in the order of R.
RECURSIVE Pick(_, _, _)
Pick(R, K, i) ==
  IF i > Len(R) THEN <<>>
  ELSE (IF i \in K THEN <<R[i]>> ELSE <<>>) \o Pick(R, K, i + 1)

\* s can be obtained from t by deleting elements.
RECURSIVE IsSubSeq(_, _)
IsSubSeq(s, t) ==
  IF s = <<>> THEN TRUE
  ELSE IF t = <<>> THEN FALSE
  ELSE IF Head(s) = Head(t) THEN IsSubSeq(Tail(s), Tail(t))
  ELSE IsSubSeq(s, Tail(t))

\* The relation a leaf filter stands for (status, type, author, label).
Satisfies(leaf, issue) ==
  CASE leaf.type = "status" -> issue.status = leaf.value
    [] leaf.type = "type" -> issue.type = leaf.value
    [] leaf.type = "author" -> issue.author = leaf.value
    [] leaf.type = "label" -> leaf.value \in {issue.labels[k] : k \in 1..Len(issue.labels)}

\* The predicate executeQuery builds for a filter taken alone.
AlonePred(text) == createPredicate(Run(searchQueryParser, text).value).pred
LeafPred == [l \in Leaves |-> AlonePred(LeafText(l))]
TopItemPred == [x \in TopItems |-> AlonePred(ItemText(x))]

\* The clock readings a call may have taken for the first n records of its
\* input: one reading per record, none later than the clock now.
Readings(n) == [1..n -> StartTime..now]

\* The records call c has visited.
Visited(c) == SubSeq(Input(c), 1, calls[c].idx - 1)

\* C1: for every malformed query string and every record collection,
\* executeQuery returns the empty sequence and logs a diagnostic; it never
\* returns all the records.  (Read for collections that have records: of an
\* empty collection the empty result is all the records.)
C1_MalformedFailsClosed ==
  \A c \in Calls :
    (Done(c) /\ calls[c].query \in MalformedQueries /\ Input(c) # <<>>)
      => (calls[c].out = <<>> /\ log # <<>>)

\* C2: the empty query parses to an and-node without children and
\* executeQuery("", R) returns exactly R, in the same order.
C2_EmptyQueryMatchesAll ==
  \A c \in Calls :
    (calls[c].pc # "idle" /\ calls[c].query = <<>>)
      => /\ calls[c].ast = [type |-> "and", value |-> <<>>]
         /\ Done(c) => calls[c].out = Input(c)

C2_Witness ==
  \E c \in Calls :
    /\ Done(c) /\ calls[c].query = <<>>
    /\ Len(Input(c)) = 2 /\ Input(c)[1] # Input(c)[2]
    /\ calls[c].out = Input(c)

\* C3: a query of one valid leaf filter on status, type, author or label
\* returns exactly the records that satisfy the leaf's relation, in order.
C3_SingleLeafExact ==
  \A c \in Calls :
    Done(c) =>
      \A e \in LeafTable :
        (e.leaf.type # "updated" /\ calls[c].query = e.text)
          => calls[c].out =
               Pick(Input(c),
                    {i \in 1..Len(Input(c)) : Satisfies(e.leaf, Input(c)[i])}, 1)

C3_Witness ==
  \E c \in Calls :
    /\ Done(c) /\ calls[c].query = LeafText(Leaf("label", S_bug))
    /\ Len(Input(c)) = 2 /\ Len(calls[c].out) = 1
    /\ Len(calls[c].out[1].labels) = 3

\* C4: a query of two or more top-level filters separated by whitespace
\* returns exactly the records every one of the filters keeps when taken
\* alone (each record judged by all the filters at one clock reading).
C4_ImplicitAnd ==
  \A c \in Calls :
    Done(c) =>
      \A e \in QueryTable :
        (Len(e.items) >= 2 /\ calls[c].query = e.text)
          => \E at \in Readings(Len(Input(c))) :
               calls[c].out =
                 Pick(Input(c),
                      {i \in 1..Len(Input(c)) :
                         \A k \in 1..Len(e.items) :
                           Holds(TopItemPred[e.items[k]], Input(c)[i], at[i])},
                      1)

C4_Witness ==
  \E c \in Calls :
    /\ Done(c)
    /\ calls[c].query =
         QueryText(<<Group(<<Leaf("status", S_closed), Leaf("author", S_alice)>>),
                     Bare(Leaf("label", S_bug))>>)
    /\ Len(Input(c)) = 2 /\ Len(calls[c].out) = 1

\* C5: a parenthesised group of two or more valid leaves returns exactly
\* the records at least one of the leaves keeps when taken alone, in input
\* order, each record once (each record judged by all the leaves at one
\* clock reading).
C5_ExplicitOr ==
  \A c \in Calls :
    Done(c) =>
      \A e \in GroupTable :
        (Len(e.group.leaves) >= 2 /\ calls[c].query = e.text)
          => \E at \in Readings(Len(Input(c))) :
               calls[c].out =
                 Pick(Input(c),
                      {i \in 1..Len(Input(c)) :
                         \E k \in 1..Len(e.group.leaves) :
                           Holds(LeafPred[e.group.leaves[k]], Input(c)[i], at[i])},
                      1)

C5_Witness ==
  \E c \in Calls :
    /\ Done(c)
    /\ calls[c].query = GroupText(<<Leaf("author", S_alice), Leaf("author", S_bob)>>)
    /\ Len(Input(c)) = 2 /\ Len(calls[c].out) = 2
    /\ calls[c].out[1].author = S_bob /\ calls[c].out[2].author = S_alice

\* C6: for every query and every record sequence, what executeQuery has
\* collected is a sub-sequence of its input: no record invented or
\* duplicated, relative order kept.
C6_OutputIsSubSequence ==
  \A c \in Calls :
    calls[c].pc # "idle" => IsSubSeq(calls[c].out, Input(c))

C6_Witness ==
  \E c \in Calls :
    /\ Done(c) /\ Len(Input(c)) = 2 /\ Input(c)[1] # Input(c)[2]
    /\ calls[c].out = <<Input(c)[2]>>

RECURSIVE HasUpdated(_)
HasUpdated(node) ==
  \/ node.type = "updated"
  \/ /\ node.type \in {"and", "or"}
     /\ \E i \in 1..Len(node.value) : HasUpdated(node.value[i])

\* Call c filters, with the same query, the array call d returned.
Refilters(c, d) ==
  /\ Done(c) /\ calls[c].src = d /\ d # 0
  /\ calls[c].query = calls[d].query

\* C7 as claimed: filtering an already filtered result again with the same
\* query returns the same result, for every query, whenever the second
\* call happens.
C7_RefilterSame ==
  \A c, d \in Calls : Refilters(c, d) => calls[c].out = calls[d].out

\* C7 as amended: filtering an already filtered result again with the same
\* query returns the same result when the AST of the query has no updated:
\* leaf, whenever the second call happens.
C7_RefilterSameWithoutUpdated ==
  \A c, d \in Calls :
    (Refilters(c, d) /\ ~HasUpdated(calls[c].ast))
      => calls[c].out = calls[d].out

C7_Witness ==
  \E c, d \in Calls :
    /\ Refilters(c, d) /\ ~HasUpdated(calls[c].ast)
    /\ Len(Input(d)) = 2 /\ Len(calls[d].out) = 1
    /\ calls[c].out = calls[d].out
    /\ now > StartTime

\* C8 (parsing the same string twice gives the same result) compares two
\* evaluations of Run(searchQueryParser, q): it has no formula.

\* C9: no step of executeQuery changes its input: the caller's array and
\* the array of every call keep their length, order, elements and fields.
C9_InputsUnchanged ==
  [][ /\ issues' = issues
      /\ \A c \in Calls : calls[c].pc # "idle" => Input(c)' = Input(c) ]_vars

C9_Witness ==
  \E c \in Calls :
    /\ Done(c) /\ calls[c].src = 0
    /\ Len(issues) = 2 /\ calls[c].out = <<>>
    /\ calls[c].query = LeafText(Leaf("type", S_bug))

\* The predicate executeQuery builds for each query of the interleaved
\* callers, computed from the query string alone.
ConcPred == [q \in ConcQueries |-> AlonePred(q)]

\* The result of executeQuery(query, R) run alone, when the clock reads
\* at[i] while record i is evaluated.
executeQueryAlone(query, R, at) ==
  Pick(R, {i \in 1..Len(R) : Holds(ConcPred[query], R[i], at[i])}, 1)

\* C10: however the calls of executeQuery are interleaved, what each call
\* has collected is what the same call, run alone on its query and the
\* records it has visited, collects (for clock readings it can have taken).
C10_InterleavedAsAlone ==
  \A c \in Calls :
    calls[c].pc # "idle" =>
      \E at \in Readings(Len(Visited(c))) :
        calls[c].out = executeQueryAlone(calls[c].query, Visited(c), at)

\* Two calls with different queries on the same array, both half way.
C10_Witness ==
  /\ Running(1) /\ Running(2)
  /\ calls[1].src = 0 /\ calls[2].src = 0
  /\ Len(issues) = 2 /\ calls[1].idx = 2 /\ calls[2].idx = 2
  /\ calls[1].query = LeafText(Leaf("status", S_open))
  /\ calls[2].query = LeafText(Leaf("updated", S_hour))
  /\ issues[1].id = "1"
  /\ calls[1].out = <<issues[1]>> /\ calls[2].out = <<>>
  /\ now > StartTime

(***************************************************************************)
(* Properties of the parser combinators                                    *)
(***************************************************************************)

\* The application of a parser built by op has returned.
AppDone(op) == app.pc = "done" /\ app.parser.op = op

\* The loops of seq, alt and many taken turn by turn return what the
\* parsers return when applied in one go.
StepsAgreeWithRun ==
  app.pc = "done" => app.result = Run(app.parser, app.input)

\* s begins with the characters of t, one by one.
BeginsWith(s, t) ==
  /\ Len(t) <= Len(s)
  /\ \A k \in 1..Len(t) : s[k] = t[k]

\* s without its first n characters.
Rest(s, n) == [k \in 1..(Len(s) - n) |-> s[k + n]]

\* C11 (as stated): lit(match) succeeds iff the input starts with match,
\* case-sensitively; on success the value is match and the remaining input
\* is the rest of the input with its leading whitespace trimmed; on failure
\* the error is INVALID_TOKEN, names the expected literal and carries the
\* input.
C11_LitTrimsLeading ==
  AppDone("lit") =>
    LET match == app.parser.match
        input == app.input
        result == app.result
    IN  /\ isRight(result) <=> BeginsWith(input, match)
        /\ isRight(result) =>
              /\ result.value = match
              /\ result.remaining = TrimStart(Rest(input, Len(match)))
        /\ isLeft(result) =>
              /\ result.code = "INVALID_TOKEN"
              /\ result.message = Message("Expected", match)
              /\ result.input = input

\* C11 (amended): as stated, but the remaining input is the rest of the
\* input with the whitespace trimmed at both ends.
C11_LitTrimsBothEnds ==
  AppDone("lit") =>
    LET match == app.parser.match
        input == app.input
        result == app.result
        rest == Rest(input, Len(match))
    IN  /\ isRight(result) <=> BeginsWith(input, match)
        /\ isRight(result) =>
              /\ result.value = match
              /\ BeginsWith(TrimStart(rest), result.remaining)
              /\ result.remaining = TrimEnd(TrimStart(rest))
        /\ isLeft(result) =>
              /\ result.code = "INVALID_TOKEN"
              /\ result.message = Message("Expected", match)
              /\ result.input = input

\* lit("is:") has been applied to "is: open ": whitespace on both sides of
\* the rest.
C11_Witness ==
  /\ AppDone("lit")
  /\ app.parser.match = S_is
  /\ app.input = S_is \o SP \o S_open \o SP
  /\ isRight(app.result)
  /\ app.result.remaining = S_open

C13_SeqThreadsAndStops ==
  AppDone("seq") =>
    LET parsers == app.parser.parsers
        n == Len(parsers)
        invoked == app.invoked
        k == Len(invoked)
        sub(j) == Run(parsers[j], invoked[j].input)
    IN  /\ k <= n
        /\ \A j \in 1..k : invoked[j].parser = parsers[j]
        /\ k >= 1 => invoked[1].input = app.input
        /\ \A j \in 2..k : invoked[j].input = sub(j - 1).remaining
        /\ \A j \in 1..(k - 1) : isRight(sub(j))
        /\ IF k >= 1 /\ isLeft(sub(k))
             THEN app.result = sub(k)
             ELSE /\ k = n
                  /\ isRight(app.result)
                  /\ app.result.value = [j \in 1..n |-> sub(j).value]
                  /\ app.result.remaining =
                       IF n = 0 THEN app.input ELSE sub(n).remaining

\* A seq of two parsers has returned the error of the first one without
\* calling the second.
C13_Witness ==
  /\ AppDone("seq")
  /\ Len(app.parser.parsers) = 2
  /\ Len(app.invoked) = 1
  /\ isLeft(app.result)
  /\ app.result = Run(app.parser.parsers[1], app.input)

\* C14: alt(p1..pn) calls the parsers in order, each on the original
\* input, and returns the result of the first that succeeds without calling
\* the later ones; if all fail it returns one generic INVALID_TOKEN error
\* whose input is the original input, whatever the parsers consumed and
\* reported.
C14_AltFirstSuccessOnOriginalInput ==
  AppDone("alt") =>
    LET parsers == app.parser.parsers
        n == Len(parsers)
        invoked == app.invoked
        k == Len(invoked)
        sub(j) == Run(parsers[j], app.input)
    IN  /\ k <= n
        /\ \A j \in 1..k : invoked[j] = Call(parsers[j], app.input)
        /\ \A j \in 1..(k - 1) : isLeft(sub(j))
        /\ IF k >= 1 /\ isRight(sub(k))
             THEN app.result = sub(k)
             ELSE /\ k = n
                  /\ app.result =
                       failure("INVALID_TOKEN",
                               Message("No matching alternative", <<>>), 0,
                               app.input)

\* The alternative of the six top-level filters has failed on "is:maybe":
\* statusParser consumed "is:" before it failed, and the five parsers after
\* it were still given "is:maybe".
C14_Witness ==
  /\ AppDone("alt")
  /\ app.parser = searchQueryParser.parser.parser
  /\ app.input = S_is \o S_maybe
  /\ Len(app.invoked) = 6
  /\ Run(statusParser, app.input).input = S_maybe
  /\ isLeft(app.result)
  /\ app.result.input = app.input

\* C15: many(p) never returns a failure: it applies p to the trimmed
\* remaining input again and again, collects the values of the successful
\* applications, stops at the first failure of p and returns success; with
\* no successful application the value is the empty sequence and the
\* remaining input is the original input.
C15_ManyNeverFails ==
  AppDone("many") =>
    LET parser == app.parser.parser
        invoked == app.invoked
        k == Len(invoked)
        sub(j) == Run(parser, invoked[j].input)
    IN  /\ isRight(app.result)
        /\ k >= 1
        /\ \A j \in 1..k : invoked[j].parser = parser
        /\ invoked[1].input = TrimEnd(TrimStart(app.input))
        /\ \A j \in 2..k :
              invoked[j].input = TrimEnd(TrimStart(sub(j - 1).remaining))
        /\ \A j \in 1..(k - 1) : isRight(sub(j))
        /\ isLeft(sub(k))
        /\ app.result.value = [j \in 1..(k - 1) |-> sub(j).value]
        /\ k = 1 => app.result.value = <<>> /\ app.result.remaining = app.input

\* many(p) has returned without a successful application of p, on an input
\* with whitespace around it: the input comes back untrimmed.
C15_Witness ==
  /\ AppDone("many")
  /\ Len(app.invoked) = 1
  /\ app.input # Trim(app.input)
  /\ isRight(app.result)
  /\ app.result.value = <<>>
  /\ app.result.remaining = app.input

(***************************************************************************)
(* Properties of the grammar and of the predicate compiler                 *)
(***************************************************************************)

\* searchQueryParser has returned an AST.
Parsed ==
  /\ AppDone("map")
  /\ app.parser = searchQueryParser
  /\ isRight(app.result)

\* The node a top-level filter with at least one leaf stands for.
NodeOf(item) ==
  IF Len(item.leaves) = 1 THEN item.leaves[1]
  ELSE [type |-> "or", value |-> item.leaves]

NoEmptyGroup(items) == \A i \in 1..Len(items) : items[i].leaves # <<>>

\* C16: the top-level query parser gives an and-node without children for
\* no filter, the filter's own node for exactly one filter ("is:open" gives
\* the leaf {status, open}), and an and-node of the filters in query order
\* for two or more.
C16_QueryProjection ==
  Parsed =>
    LET ast == app.result.value
        filters == Run(searchQueryParser.parser, app.input).value
    IN  /\ Len(filters) = 0 => ast = [type |-> "and", value |-> <<>>]
        /\ Len(filters) = 1 => ast = filters[1]
        /\ Len(filters) >= 2 => ast = [type |-> "and", value |-> filters]
        /\ app.input = S_is \o S_open => ast = Leaf("status", S_open)
        /\ \A e \in ParseTable :
              (e.text = app.input /\ NoEmptyGroup(e.items)) =>
                LET n == Len(e.items)
                IN  /\ n = 0 => ast = [type |-> "and", value |-> <<>>]
                    /\ n = 1 => ast = NodeOf(e.items[1])
                    /\ n >= 2 =>
                         ast = [type |-> "and",
                                value |-> [i \in 1..n |-> NodeOf(e.items[i])]]

\* "updated:day (label:bug is:open label:bug)" has been parsed to an
\* and-node of the leaf and the or-node, in this order.
C16_Witness ==
  /\ Parsed
  /\ app.input =
       QueryText(<<Bare(Leaf("updated", S_day)),
                   Group(<<Leaf("label", S_bug), Leaf("status", S_open),
                           Leaf("label", S_bug)>>)>>)
  /\ app.result.value.type = "and"
  /\ Len(app.result.value.value) = 2
  /\ app.result.value.value[1] = Leaf("updated", S_day)

\* C17: the group parser gives the leaf itself when exactly one leaf was
\* collected between the parentheses and an or-node of the leaves in order
\* when more than one was.
C17_GroupProjection ==
  (AppDone("map") /\ app.parser = orParser /\ isRight(app.result)) =>
    LET node == app.result.value
        filters == Run(orParser.parser, app.input).value[2]
    IN  /\ Len(filters) = 1 => node = filters[1]
        /\ Len(filters) > 1 => node = [type |-> "or", value |-> filters]
        /\ \A g \in ParseItems :
              (g.group /\ ItemText(g) = app.input) =>
                /\ Len(g.leaves) = 1 => node = g.leaves[1]
                /\ Len(g.leaves) > 1 => node = [type |-> "or", value |-> g.leaves]

\* "(label:bug is:open label:bug)" has been parsed to an or-node of the
\* three leaves.
C17_Witness ==
  /\ AppDone("map")
  /\ app.parser = orParser
  /\ app.input = GroupText(<<Leaf("label", S_bug), Leaf("status", S_open),
                             Leaf("label", S_bug)>>)
  /\ isRight(app.result)
  /\ app.result.value.type = "or"
  /\ Len(app.result.value.value) = 3

RECURSIVE HasEmptyOr(_)
HasEmptyOr(node) ==
  /\ node.type \in {"and", "or"}
  /\ \/ node.type = "or" /\ node.value = <<>>
     \/ \E i \in 1..Len(node.value) : HasEmptyOr(node.value[i])

\* C18: no AST the query parser returns contains an or-node without
\* children, for any query string ("()" included).
C18_NoEmptyOr == Parsed => ~HasEmptyOr(app.result.value)

InvalidLeaf(node) ==
  \/ node.type = "status" /\ node.value \notin {S_open, S_closed}
  \/ node.type = "type" /\ node.value \notin {S_bug, S_feature, S_docs, S_enhancement}
  \/ node.type = "updated" /\ node.value \notin {S_hour, S_day, S_week, S_month}

RECURSIVE HasInvalidLeaf(_)
HasInvalidLeaf(node) ==
  IF node.type \in {"and", "or"}
    THEN \E i \in 1..Len(node.value) : HasInvalidLeaf(node.value[i])
    ELSE InvalidLeaf(node)

\* The predicate contains the constant-false predicate.
RECURSIVE HasNone(_)
HasNone(pred) ==
  IF pred.p \in {"and", "or"}
    THEN \E i \in 1..Len(pred.preds) : HasNone(pred.preds[i])
    ELSE pred.p = "none"

\* createPredicate has returned for a FilterNode made by hand.
CompiledByHand == app.pc = "compiled" /\ app.parser # searchQueryParser

\* C19: a status, type or updated leaf whose value is outside the
\* enumeration is compiled to the constant-false predicate and the anomaly
\* is logged; the rest of the query is compiled as usual.
C19_InvalidLeafFalseAndLogged ==
  (CompiledByHand /\ HasInvalidLeaf(app.node)) =>
    /\ HasNone(app.predicate)
    /\ InvalidLeaf(app.node) => app.predicate = matchNone
    /\ log # <<>>
    /\ app.node.type = "or" =>
         \E issue \in IssuePool : Holds(app.predicate, issue, now)

\* C20: every status, type or updated leaf of an AST the query parser
\* returns has a value of its enumeration, and the predicate compiled from
\* the AST contains no constant-false predicate and logs nothing.
C20_ParsedLeavesValid ==
  /\ Parsed => ~HasInvalidLeaf(app.result.value)
  /\ (app.pc = "compiled" /\ app.parser = searchQueryParser) =>
       /\ ~HasInvalidLeaf(app.node)
       /\ ~HasNone(app.predicate)
       /\ log = <<>>

\* The AST of "is:closed \t is:open" (an and-node of two status leaves)
\* has been compiled.
C20_Witness ==
  /\ app.pc = "compiled"
  /\ app.parser = searchQueryParser
  /\ app.input = S_is \o S_closed \o SP \o TAB \o S_is \o S_open
  /\ app.node = [type |-> "and",
                 value |-> <<Leaf("status", S_closed), Leaf("status", S_open)>>]
  /\ app.predicate.p = "and"

(***************************************************************************)
(* Properties of the compiled predicates                                   *)
(***************************************************************************)

\* The predicate compiled from a node has been applied to an issue.
Evaluated == app.pc = "evaluated"

\* The thresholds of the buckets in seconds: 3,600,000, 86,400,000,
\* 604,800,000 and 2,592,000,000 ms.
T(b) ==
  CASE b = S_hour -> 60 * 60
    [] b = S_day -> 24 * 60 * 60
    [] b = S_week -> 7 * 24 * 60 * 60
    [] b = S_month -> 30 * 24 * 60 * 60

\* C21: the predicate of a leaf updated:b holds for a record iff the clock,
\* read when the record is evaluated, minus the record's updatedAt is at
\* most T(b); a difference equal to T(b) matches, and a record with
\* updatedAt in the future matches every bucket.
C21_TimeWindowInclusive ==
  (/\ Evaluated
   /\ app.node.type = "updated"
   /\ app.node.value \in {S_hour, S_day, S_week, S_month}) =>
    LET diff == app.at - app.issue.updatedAt
    IN  /\ app.verdict <=> diff <= T(app.node.value)
        /\ diff = T(app.node.value) => app.verdict
        /\ diff < 0 => app.verdict

\* updated:month has been applied to an issue updated exactly 30 days
\* before the clock reading, and holds.
C21_Witness ==
  /\ Evaluated
  /\ app.node = Leaf("updated", S_month)
  /\ app.at - app.issue.updatedAt = 2592000
  /\ app.verdict

\* The predicate compiled from a child node, applied to the issue at the
\* clock reading of the application.
ChildHolds(child) == Holds(createPredicate(child).pred, app.issue, app.at)

\* The depth of and/or nodes in a node.
RECURSIVE Depth(_)
Depth(node) ==
  IF node.type \notin {"and", "or"} THEN 0
  ELSE IF node.value = <<>> THEN 1
  ELSE 1 + Depth(node.value[
         CHOOSE i \in 1..Len(node.value) :
           \A j \in 1..Len(node.value) :
             Depth(node.value[j]) <= Depth(node.value[i])])

\* C22: for every AST, hand-built ones with nested and/or included, the
\* predicate of an and-node holds for a record iff the predicates of all
\* its children hold (true without children), and the predicate of an
\* or-node holds iff the predicate of at least one child holds (false
\* without children).
C22_AndAllOrSome ==
  Evaluated =>
    LET children == app.node.value
    IN  /\ app.node.type = "and" =>
              (app.verdict <=> \A i \in 1..Len(children) : ChildHolds(children[i]))
        /\ app.node.type = "or" =>
              (app.verdict <=> \E i \in 1..Len(children) : ChildHolds(children[i]))
        /\ app.node = [type |-> "and", value |-> <<>>] => app.verdict
        /\ app.node = [type |-> "or", value |-> <<>>] => ~app.verdict

\* A hand-built or-node with an and-node and an or-node nested in it has
\* been applied to an issue that its first child rejects and its last
\* child matches.
C22_Witness ==
  /\ Evaluated
  /\ app.parser # searchQueryParser
  /\ app.node.type = "or"
  /\ Depth(app.node) = 3
  /\ Len(app.node.value) = 3
  /\ ~ChildHolds(app.node.value[1])
  /\ ChildHolds(app.node.value[3])
  /\ app.verdict

IsLeaf(node) == node.type \notin {"and", "or"}

\* An and-node only at the root, with leaves and or-nodes of leaves as
\* children; or an or-node of leaves; or a leaf.
Shallow(node) ==
  /\ Depth(node) <= 2
  /\ node.type = "and" =>
        \A i \in 1..Len(node.value) :
          LET child == node.value[i]
          IN  \/ IsLeaf(child)
              \/ /\ child.type = "or"
                 /\ \A j \in 1..Len(child.value) : IsLeaf(child.value[j])
  /\ node.type = "or" =>
        \A i \in 1..Len(node.value) : IsLeaf(node.value[i])

\* C23: for every query string the AST the query parser returns has and/or
\* depth at most 2: an and-node only at the root, its children leaves or
\* or-nodes, the children of an or-node leaves; and the compilation of the
\* AST ends.
C23_ParsedDepthAtMostTwo ==
  /\ Parsed => Shallow(app.result.value)
  /\ (app.pc \in {"compiled", "evaluated"} /\ app.parser = searchQueryParser) =>
       /\ Shallow(app.node)
       /\ app.predicate = createPredicate(app.node).pred

\* The AST of "updated:day (label:bug is:open label:bug)", of depth 2, has
\* been compiled.
C23_Witness ==
  /\ app.pc = "compiled"
  /\ app.parser = searchQueryParser
  /\ app.node.type = "and"
  /\ Len(app.node.value) = 2
  /\ app.node.value[2].type = "or"
  /\ Depth(app.node) = 2
  /\ app.predicate.p = "and"
  /\ app.predicate.preds[2].p = "or"

\* The input opens a group, and a "(" occurs in it before the first ")".
NestedParen(input) ==
  /\ input # <<>>
  /\ input[1] = "("
  /\ \E k \in 2..Len(input) :
        /\ input[k] = "("
        /\ \A j \in 2..(k - 1) : input[j] # ")"

RECURSIVE HasOrInOr(_)
HasOrInOr(node) ==
  /\ ~IsLeaf(node)
  /\ \E i \in 1..Len(node.value) :
        \/ node.type = "or" /\ node.value[i].type = "or"
        \/ HasOrInOr(node.value[i])

\* C24: the group parser takes one level of parentheses: on an input with
\* a "(" inside the group before its closing ")" it returns a failure, and
\* no parser returns an or-node nested inside an or-node.
C24_NoNestedGroups ==
  /\ (AppDone("map") /\ app.parser = orParser /\ NestedParen(app.input)) =>
       isLeft(app.result)
  /\ (AppDone("map") /\ app.parser \in {orParser, searchQueryParser}
        /\ isRight(app.result)) =>
       ~HasOrInOr(app.result.value)

\* The group parser has failed on "(is:open (is:closed))": it expected ")"
\* where the inner group begins.
C24_Witness ==
  /\ AppDone("map")
  /\ app.parser = orParser
  /\ app.input = S_lparen \o S_is \o S_open \o SP \o S_lparen \o S_is
                   \o S_closed \o S_rparen \o S_rparen
  /\ isLeft(app.result)
  /\ app.result.message = Message("Expected", S_rparen)
  /\ app.result.input = S_lparen \o S_is \o S_closed \o S_rparen \o S_rparen

(***************************************************************************)
(* Properties of search-engine.ts                                          *)
(***************************************************************************)

\* C25: in search-engine.ts a query that does not begin with a type:
\* filter, a priority: filter and a created: filter, in this order and each
\* with a value of its enumeration, makes the parser return Left;
\* createSearchPredicate then gives a predicate that rejects every
\* document, and executeQuery returns the empty sequence; nothing says why.
C25_EngineFailsClosedSilently ==
  (engine.pc # "idle" /\ engine.input \in BadEngineQueries) =>
    /\ isLeft(engine.parsedSearchQuery)
    /\ engine.pc \in {"filter", "done"} =>
         /\ \A doc \in DocPool : ~HoldsEngine(engine.predicate, doc, now)
         /\ engine.results = <<>>
    /\ engine.pc = "done" =>
         /\ engine.printed = <<engine.input, 0>>
         /\ log = <<>>

\* The script has run on "priority:medium type:document created:week" (the
\* order changed) and two documents, and found nothing.
C25_Witness ==
  /\ engine.pc = "done"
  /\ engine.input =
       S_priority \o S_medium \o SP \o S_type \o S_document \o SP
         \o S_created \o S_week
  /\ Len(engine.documents) = 2
  /\ isLeft(engine.parsedSearchQuery)
  /\ engine.results = <<>>

(***************************************************************************)
(* Properties of executeQuery on text the grammar does not accept          *)
(***************************************************************************)

GarbageTable ==
  { [p |-> <<>>, text |-> S_is \o S_maybe],
    [p |-> <<>>, text |-> S_bogus],
    [p |-> <<>>, text |-> S_bogus \o SP \o S_is \o S_open],
    [p |-> <<Leaf("status", S_open)>>, text |-> S_is \o S_open \o SP \o S_bogus],
    [p |-> <<>>, text |-> S_type \o S_maybe \o SP \o S_is \o S_closed],
    [p |-> <<>>, text |-> S_lparen \o S_is \o S_open],
    [p |-> <<>>,
     text |-> S_lparen \o S_lparen \o S_is \o S_open \o S_rparen \o S_rparen],
    [p |-> <<Leaf("status", S_open)>>, text |-> S_is \o S_open \o S_rparen],
    [p |-> <<>>, text |-> S_author],
    [p |-> <<>>, text |-> S_updated \o S_bug],
    [p |-> <<Leaf("status", S_closed)>>,
     text |-> S_is \o S_closed \o SP \o S_lparen \o S_is \o S_open] }

GrammarLoops == {searchQueryParser.parser, orParser.parser.parsers[2]}

InLoop == app.pc \in {"run", "done"} /\ app.parser \in GrammarLoops

ParsedFrom(input) == Parsed /\ app.input = input

\* C29: the grammar has no token boundary: an enumerated value is matched
\* as a prefix and whitespace is optional.  For every enumerated value v
\* and suffix s the field parser gives prefix + v + s the leaf of
\* prefix + v and leaves s (trimmed) as the remaining input; "is: open"
\* parses like "is:open"; "is:openlabel:bug" has the AST of
\* "is:open label:bug", also inside a group.
C29_NoTokenBoundary ==
  /\ app.pc = "done" =>
       \A f \in EnumFields : \A v \in f.values : \A suffix \in Suffixes :
         (app.parser = f.parser /\ app.input = f.prefix \o v \o suffix) =>
           app.result = success(Leaf(f.type, v), Trim(suffix))
  /\ (AppDone("map") /\ app.parser = statusParser
        /\ app.input = S_is \o SP \o S_open) =>
       app.result = success(Leaf("status", S_open), <<>>)
  /\ ParsedFrom(S_is \o SP \o S_open) =>
       app.result = Run(searchQueryParser, S_is \o S_open)
  /\ (ParsedFrom(S_is \o S_open \o S_label \o S_bug)
        \/ ParsedFrom(S_is \o S_open \o SP \o S_label \o S_bug)) =>
       app.result =
         success([type |-> "and",
                  value |-> <<Leaf("status", S_open), Leaf("label", S_bug)>>],
                 <<>>)
  /\ ParsedFrom(S_lparen \o S_is \o S_open \o S_label \o S_bug \o S_rparen) =>
       app.result =
         success([type |-> "or",
                  value |-> <<Leaf("status", S_open), Leaf("label", S_bug)>>],
                 <<>>)

\* searchQueryParser has returned the two filters of "is:openlabel:bug".
C29_Witness ==
  /\ ParsedFrom(S_is \o S_open \o S_label \o S_bug)
  /\ app.result.value.type = "and"
  /\ Len(app.result.value.value) = 2
  /\ app.result.remaining = <<>>

\* statusParser has returned for "is:closeded": the leaf of is:closed, with
\* "ed" left over.
C29_WitnessSuffix ==
  /\ AppDone("map")
  /\ app.parser = statusParser
  /\ app.input = S_is \o S_closed \o <<"e", "d">>
  /\ app.result = success(Leaf("status", S_closed), <<"e", "d">>)

(***************************************************************************)
(* Properties of the errors                                                *)
(***************************************************************************)

RECURSIVE Errors(_, _)
RECURSIVE SeqErrors(_, _, _)
RECURSIVE ManyErrors(_, _)

\* The errors the parsers of a seq construct from parser number i on.
SeqErrors(parsers, i, remaining) ==
  IF i > Len(parsers) THEN {}
  ELSE LET result == Run(parsers[i], remaining)
       IN  Errors(parsers[i], remaining)
             \cup (IF isLeft(result) THEN {}
                   ELSE SeqErrors(parsers, i + 1, result.remaining))

\* The errors the turns of a many construct.
ManyErrors(parser, remaining) ==
  LET trimmedRemaining == Trim(remaining)
      result == Run(parser, trimmedRemaining)
  IN  Errors(parser, trimmedRemaining)
        \cup (IF isLeft(result) THEN {}
              ELSE ManyErrors(parser, result.remaining))

\* Every ParserError constructed while p is applied to input: the ones
\* returned and the ones alt and many drop.
Errors(p, input) ==
  LET result == Run(p, input)
      own == IF isLeft(result) THEN {result} ELSE {}
  IN  CASE p.op \in {"lit", "word"} -> own
        [] p.op = "alt" ->
             own \cup UNION {Errors(p.parsers[k], input) :
                              k \in {j \in 1..Len(p.parsers) :
                                       \A h \in 1..(j - 1) :
                                         isLeft(Run(p.parsers[h], input))}}
        [] p.op = "seq" -> own \cup SeqErrors(p.parsers, 1, input)
        [] p.op = "many" -> ManyErrors(p.parser, input)
        [] p.op = "map" -> own \cup Errors(p.parser, input)

\* C30: every ParserError a parser constructs, returned or dropped on the
\* way, has the code INVALID_TOKEN and the position 0; MISSING_VALUE,
\* INVALID_STATUS, INVALID_TYPE and INVALID_TIME_FILTER are never produced.
C30_OnlyInvalidToken ==
  app.pc = "done" =>
    /\ isLeft(app.result) => app.result \in Errors(app.parser, app.input)
    /\ \A error \in Errors(app.parser, app.input) :
         /\ error.code = "INVALID_TOKEN"
         /\ error.position = 0

\* authorParser has failed on "author:", where a value is missing: the
\* error is the INVALID_TOKEN of word().
C30_Witness ==
  /\ AppDone("map")
  /\ app.parser = authorParser
  /\ app.input = S_author
  /\ isLeft(app.result)
  /\ app.result.code = "INVALID_TOKEN"
  /\ app.result.message = Message("Expected a word", <<>>)
  /\ app.result.position = 0

====
